---- MODULE Spec2Model ----
(***************************************************************************)
(* A model of Phaser.GameObjects.Components.TransformMatrix                *)
(* (src/gameobjects/components/TransformMatrix.js).                        *)
(*                                                                         *)
(* Numbers.  Every scalar of the class is a JavaScript number (an IEEE-754 *)
(* double; the matrix storage is a Float32Array).  A number of the model   *)
(* is a record [k, s, n, d, u]:                                            *)
(*   k = "fin"  the finite value  s * (n/d) * unit,  s in {1,-1}, n/d in   *)
(*              lowest terms, d a power of two and n, d <= MaxNum (a dyadic *)
(*              rational of at most 29 significant bits: sums, products    *)
(*              and quotients of such values that are such values are      *)
(*              computed without rounding by IEEE double arithmetic; a     *)
(*              store into a Float32Array rounds them to the 24            *)
(*              significant bits of single precision, see F32); n = 0 with *)
(*              s = -1 is the negative zero.  unit is 1 when u = "one" and *)
(*              a quarter turn (pi/2) when u = "qt": the angles the trig   *)
(*              functions of the Math library take and return;             *)
(*   k = "inf"  +Infinity (s = 1) or -Infinity (s = -1);                   *)
(*   k = "nan"  NaN;                                                       *)
(*   k = "undef" the JavaScript value undefined (an absent property);      *)
(*   k = "out"  a finite value that is not of the forms above (an inexact  *)
(*              quotient such as 1/3, an irrational root, cos(1), ...).    *)
(*              Rounding in double precision is not modelled: an operation *)
(*              whose results would hold such a value is outside the       *)
(*              model, and its action is not enabled there (see InModel).  *)
(* The Math library is modelled by its exact values at the multiples of a  *)
(* quarter turn; the last-bit error of Math.cos and Math.sin there (for    *)
(* instance Math.cos(Math.PI/2) = 6.1e-17) is not represented.             *)
(***************************************************************************)
EXTENDS Integers, Sequences, FiniteSets, TLC

Fin(s, n, d, u) == [k |-> "fin", s |-> s, n |-> n, d |-> d, u |-> u]
PInf      == [k |-> "inf", s |-> 1, n |-> 0, d |-> 1, u |-> "one"]
NInf      == [k |-> "inf", s |-> -1, n |-> 0, d |-> 1, u |-> "one"]
NaN       == [k |-> "nan", s |-> 1, n |-> 0, d |-> 1, u |-> "one"]
Undefined == [k |-> "undef", s |-> 1, n |-> 0, d |-> 1, u |-> "one"]
Out       == [k |-> "out", s |-> 1, n |-> 0, d |-> 1, u |-> "one"]
Inf(s)    == IF s = 1 THEN PInf ELSE NInf
Zero(s)   == Fin(s, 0, 1, "one")

Abs(i) == IF i < 0 THEN -i ELSE i
Sgn(i) == IF i < 0 THEN -1 ELSE 1

RECURSIVE GCD(_, _)
GCD(a, b) == IF b = 0 THEN a ELSE GCD(b, a % b)

RECURSIVE IsPow2(_)
IsPow2(d) == IF d = 1 THEN TRUE ELSE IF d % 2 = 1 THEN FALSE ELSE IsPow2(d \div 2)

\* The largest root, and the largest numerator and denominator, of the
\* numbers represented
MaxRoot == 128
MaxNum  == 268435456

\* The product of the naturals p and q is a numerator represented
Fits(p, q) == q = 0 \/ p <= MaxNum \div q

\* The number s * (n/d) * unit, n >= 0, d > 0, in lowest terms; Out when it is
\* not a dyadic rational of the magnitudes represented.
Mk(s, n, d, u) ==
    IF n = 0 THEN Zero(s)
    ELSE LET g == GCD(n, d) IN
         IF IsPow2(d \div g) /\ n \div g <= MaxNum /\ d \div g <= MaxNum
         THEN Fin(s, n \div g, d \div g, u) ELSE Out

\* An integer literal, a quotient of integer literals (i/j, j > 0), and an
\* angle of q/j quarter turns.
I(i)     == Mk(Sgn(i), Abs(i), 1, "one")
Q(i, j)  == Mk(Sgn(i), Abs(i), j, "one")
Qt(i, j) == Mk(Sgn(i), Abs(i), j, "qt")

IsFin(x)  == x.k = "fin"
IsZero(x) == x.k = "fin" /\ x.n = 0
\* Number.isFinite
IsFinite(x) == x.k \in {"fin", "out"}

\* The signed numerator of a finite number over the denominator d * e.
Num(x, e) == x.s * x.n * e

\* unary minus
Neg(x) == IF x.k \in {"fin", "inf"} THEN [x EXCEPT !.s = -x.s] ELSE x

\* x + y
Add(x, y) ==
    IF x.k = "undef" \/ y.k = "undef" \/ x.k = "nan" \/ y.k = "nan" THEN NaN
    ELSE IF x.k = "out" \/ y.k = "out" THEN Out
    ELSE IF x.k = "inf" THEN (IF y.k = "inf" /\ y.s # x.s THEN NaN ELSE x)
    ELSE IF y.k = "inf" THEN y
    ELSE IF IsZero(x) /\ IsZero(y) THEN Zero(IF x.s = -1 /\ y.s = -1 THEN -1 ELSE 1)
    ELSE IF IsZero(x) THEN y
    ELSE IF IsZero(y) THEN x
    ELSE IF x.u # y.u THEN Out
    ELSE LET D  == IF x.d > y.d THEN x.d ELSE y.d
             kx == D \div x.d
             ky == D \div y.d
             t  == Num(x, kx) + Num(y, ky)
         IN IF ~Fits(x.n, kx) \/ ~Fits(y.n, ky) THEN Out
            ELSE IF t = 0 THEN Zero(1) ELSE Mk(Sgn(t), Abs(t), D, x.u)

\* x - y
Sub(x, y) == Add(x, Neg(y))

\* x * y
Mul(x, y) ==
    IF x.k = "undef" \/ y.k = "undef" \/ x.k = "nan" \/ y.k = "nan" THEN NaN
    ELSE IF x.k = "out" \/ y.k = "out" THEN Out
    ELSE IF x.k = "inf" \/ y.k = "inf"
         THEN (IF IsZero(x) \/ IsZero(y) THEN NaN ELSE Inf(x.s * y.s))
    ELSE IF IsZero(x) \/ IsZero(y) THEN Zero(x.s * y.s)
    ELSE IF x.u = "qt" /\ y.u = "qt" THEN Out
    ELSE IF ~Fits(x.n, y.n) \/ ~Fits(x.d, y.d) THEN Out
    ELSE Mk(x.s * y.s, x.n * y.n, x.d * y.d, IF x.u = "qt" \/ y.u = "qt" THEN "qt" ELSE "one")

\* x / y
Div(x, y) ==
    IF x.k = "undef" \/ y.k = "undef" \/ x.k = "nan" \/ y.k = "nan" THEN NaN
    ELSE IF x.k = "out" \/ y.k = "out" THEN Out
    ELSE IF x.k = "inf" THEN (IF y.k = "inf" THEN NaN ELSE Inf(x.s * y.s))
    ELSE IF y.k = "inf" THEN Zero(x.s * y.s)
    ELSE IF IsZero(y) THEN (IF IsZero(x) THEN NaN ELSE Inf(x.s * y.s))
    ELSE IF IsZero(x) THEN Zero(x.s * y.s)
    ELSE IF x.u = "one" /\ y.u = "qt" THEN Out
    ELSE IF ~Fits(x.n, y.d) \/ ~Fits(x.d, y.n) THEN Out
    ELSE Mk(x.s * y.s, x.n * y.d, x.d * y.n, IF x.u = y.u THEN "one" ELSE "qt")

\* |x| < |y| for finite non-zero x and y: by their integer parts, then by
\* their fractions over the larger denominator
Below(x, y) ==
    LET D == IF x.d > y.d THEN x.d ELSE y.d IN
    \/ x.n \div x.d < y.n \div y.d
    \/ /\ x.n \div x.d = y.n \div y.d
       /\ (x.n % x.d) * (D \div x.d) < (y.n % y.d) * (D \div y.d)

\* x < y, x > y and x === y (false when either is NaN; the zeros are equal)
Lt(x, y) ==
    IF x.k \in {"nan", "undef", "out"} \/ y.k \in {"nan", "undef", "out"} THEN FALSE
    ELSE IF x.k = "inf" THEN x.s = -1 /\ ~(y.k = "inf" /\ y.s = -1)
    ELSE IF y.k = "inf" THEN y.s = 1
    ELSE IF IsZero(x) THEN (~IsZero(y) /\ y.s = 1)
    ELSE IF IsZero(y) THEN x.s = -1
    ELSE IF x.u # y.u THEN FALSE
    ELSE IF x.s # y.s THEN x.s = -1
    ELSE IF x.s = 1 THEN Below(x, y) ELSE Below(y, x)
Gt(x, y) == Lt(y, x)
NumEq(x, y) ==
    IF x.k \in {"nan", "out"} \/ y.k \in {"nan", "out"} THEN FALSE
    ELSE IF IsZero(x) \/ IsZero(y) THEN IsZero(x) /\ IsZero(y)
    ELSE x = y

\* ToBoolean of a number: 0, -0, NaN and undefined are falsy
Truthy(x) == ~(IsZero(x) \/ x.k \in {"nan", "undef"})

(***************************************************************************)
(* The Math library, exact on the values the model represents.             *)
(***************************************************************************)
\* The integer root of a perfect square n, and 0 - 1 when n is no square.
IRoot(n) == IF \E r \in 0..MaxRoot : r * r = n
            THEN CHOOSE r \in 0..MaxRoot : r * r = n ELSE 0 - 1

\* Math.sqrt
Sqrt(x) ==
    IF x.k \in {"nan", "undef"} THEN NaN
    ELSE IF x.k = "inf" THEN (IF x.s = 1 THEN PInf ELSE NaN)
    ELSE IF x.k = "out" THEN Out
    ELSE IF IsZero(x) THEN x
    ELSE IF x.s = -1 THEN NaN
    ELSE IF x.u = "qt" \/ IRoot(x.n) < 0 \/ IRoot(x.d) < 0 THEN Out
    ELSE Mk(1, IRoot(x.n), IRoot(x.d), "one")

\* Math.cos and Math.sin, at the multiples of a quarter turn
Cos(x) ==
    IF x.k \in {"nan", "undef", "inf"} THEN NaN
    ELSE IF x.k = "out" THEN Out
    ELSE IF IsZero(x) THEN I(1)
    ELSE IF x.u = "one" \/ x.d # 1 THEN Out
    ELSE CASE (x.s * x.n) % 4 = 0 -> I(1)
           [] (x.s * x.n) % 4 = 2 -> I(-1)
           [] OTHER -> Zero(1)
Sin(x) ==
    IF x.k \in {"nan", "undef", "inf"} THEN NaN
    ELSE IF x.k = "out" THEN Out
    ELSE IF IsZero(x) THEN x
    ELSE IF x.u = "one" \/ x.d # 1 THEN Out
    ELSE CASE (x.s * x.n) % 4 = 1 -> I(1)
           [] (x.s * x.n) % 4 = 3 -> I(-1)
           [] OTHER -> Zero(1)

\* Math.acos
Acos(x) ==
    IF x.k \in {"nan", "undef", "inf"} THEN NaN
    ELSE IF x.k = "out" THEN Out
    ELSE IF IsZero(x) THEN Qt(1, 1)
    ELSE IF x.u = "qt" THEN Out
    ELSE IF x.n > x.d THEN NaN
    ELSE IF x.n < x.d THEN Out
    ELSE IF x.s = 1 THEN Zero(1) ELSE Qt(2, 1)

\* Math.atan
Atan(x) ==
    IF x.k \in {"nan", "undef"} THEN NaN
    ELSE IF x.k = "inf" THEN Qt(x.s, 1)
    ELSE IF x.k = "out" THEN Out
    ELSE IF IsZero(x) THEN x
    ELSE IF x.u = "one" /\ x.n = x.d THEN Qt(x.s, 2)
    ELSE Out

\* Math.atan2(y, x)
Atan2(y, x) ==
    IF x.k \in {"nan", "undef"} \/ y.k \in {"nan", "undef"} THEN NaN
    ELSE IF x.k = "out" \/ y.k = "out" THEN Out
    ELSE IF IsZero(y) THEN (IF x.s = 1 THEN Zero(y.s) ELSE Qt(2 * y.s, 1))
    ELSE IF IsZero(x) THEN Qt(y.s, 1)
    ELSE IF y.k = "inf" /\ x.k = "inf" THEN (IF x.s = 1 THEN Qt(y.s, 2) ELSE Qt(3 * y.s, 2))
    ELSE IF y.k = "inf" THEN Qt(y.s, 1)
    ELSE IF x.k = "inf" THEN (IF x.s = 1 THEN Zero(y.s) ELSE Qt(2 * y.s, 1))
    ELSE IF x.u # y.u THEN Out
    ELSE IF x.n # y.n \/ x.d # y.d THEN Out
    ELSE IF x.s = 1 THEN Qt(y.s, 2) ELSE Qt(3 * y.s, 2)

\* Math.round: the nearest integer, a tie going up
Round(x) ==
    IF x.k = "undef" THEN NaN
    ELSE IF x.k # "fin" \/ IsZero(x) THEN x
    ELSE IF x.u = "qt" THEN Out
    ELSE LET t == (2 * x.s * x.n + x.d) \div (2 * x.d) IN
         IF t = 0 THEN Zero(x.s) ELSE I(t)

\* MATH_CONST.TAU and Math.PI * 0.5
TAU     == Qt(4, 1)
HalfPI  == Qt(1, 1)

(***************************************************************************)
(* Objects.  The instances of the class are named by Insts.  h is the heap *)
(* a call runs on: h.matrix[i] is instance i's `matrix` property (the nine *)
(* elements of its Float32Array, or null), h.decomposedMatrix[i] its       *)
(* `decomposedMatrix` property (the record, or null), h.point the caller's *)
(* point-like object and h.array the caller's array.  A method is an       *)
(* operator from the heap and the arguments to an outcome: whether the     *)
(* call threw (reading or writing a property of null or undefined is a     *)
(* TypeError), the heap it left, and the value it returned.                *)
(***************************************************************************)
Insts == {"m1", "m2", "m3"}

\* null, and the argument a caller leaves out
null    == <<>>
Omitted == "undefined"

\* returned values
Ref(i)    == [t |-> "ref", v |-> i]
NumV(x)   == [t |-> "num", v |-> x]
PointV(p) == [t |-> "point", v |-> p]
ArrayV(a) == [t |-> "array", v |-> a]
StrV(s)   == [t |-> "string", v |-> s]
ObjV(o)   == [t |-> "object", v |-> o]
NoValue   == [t |-> "none", v |-> 0]

Throw(h)     == [threw |-> TRUE, h |-> h, ret |-> NoValue]
Return(h, r) == [threw |-> FALSE, h |-> h, ret |-> r]

\* The power of two by which the numerator n exceeds the 24 significant bits
\* of single precision
RECURSIVE Excess(_)
Excess(n) == IF n < 16777216 THEN 1 ELSE 2 * Excess(n \div 2)

\* A store into a Float32Array element: ToNumber, then rounding to single
\* precision: to the nearest value of 24 significant bits, a tie going to the
\* even one (the magnitudes represented are within its exponent range)
F32(v) ==
    IF v.k = "undef" THEN NaN
    ELSE IF v.k # "fin" \/ IsZero(v) THEN v
    ELSE IF v.u = "qt" THEN Out
    ELSE LET e  == Excess(v.n)
             q  == v.n \div e
             r  == v.n % e
             up == 2 * r > e \/ (2 * r = e /\ q % 2 = 1)
         IN IF e = 1 THEN v
            ELSE Mk(v.s, (IF up THEN q + 1 ELSE q) * e, v.d, "one")

\* matrix[j] and matrix[j] = v, j counted from 0 as in the source
El(m, j)     == m[j + 1]
Put(m, j, v) == [m EXCEPT ![j + 1] = F32(v)]

\* A parameter's default: `if (v === undefined) { v = dflt; }`
Default(v, dflt) == IF v.k = "undef" THEN dflt ELSE v

\* new TransformMatrix(a, b, c, d, tx, ty): the two properties it sets
NewMatrix(a, b, c, d, tx, ty) ==
    LET vs == <<Default(a, I(1)), Default(b, I(0)), Default(c, I(0)),
                Default(d, I(1)), Default(tx, I(0)), Default(ty, I(0)),
                I(0), I(0), I(1)>>
    IN [j \in 1..9 |-> F32(vs[j])]
NewDecomposedMatrix ==
    [translateX |-> I(0), translateY |-> I(0), scaleX |-> I(1), scaleY |-> I(1),
     rotation |-> I(0), skewX |-> Undefined, skewY |-> Undefined]

\* The element behind each raw property: a, b, c, d, e, f, and tx, ty
Slot(name) ==
    CASE name = "a" -> 0 [] name = "b" -> 1 [] name = "c" -> 2 [] name = "d" -> 3
      [] name = "e" -> 4 [] name = "f" -> 5 [] name = "tx" -> 4 [] name = "ty" -> 5
RawNames == {"a", "b", "c", "d", "e", "f", "tx", "ty"}

\* The getter and the setter of a raw property
getRaw(h, self, name) ==
    IF h.matrix[self] = null THEN Throw(h)
    ELSE Return(h, NumV(El(h.matrix[self], Slot(name))))
setRaw(h, self, name, value) ==
    IF h.matrix[self] = null THEN Throw(h)
    ELSE Return([h EXCEPT !.matrix[self] = Put(@, Slot(name), value)], NoValue)

\* The derived getters, as numbers, on a live instance
ScaleXOf(m) == Sqrt(Add(Mul(El(m, 0), El(m, 0)), Mul(El(m, 1), El(m, 1))))
ScaleYOf(m) == Sqrt(Add(Mul(El(m, 2), El(m, 2)), Mul(El(m, 3), El(m, 3))))
\* (where Math.atan's value is not represented, so is the comparison's outcome)
RotationOf(m) ==
    LET atan == Atan(Div(Neg(El(m, 2)), El(m, 0))) IN
    IF atan.k = "out" THEN Out
    ELSE Mul(Acos(Div(El(m, 0), ScaleXOf(m))), IF Lt(atan, I(0)) THEN I(-1) ELSE I(1))
RotationNormalizedOf(m) ==
    LET a == El(m, 0)
        b == El(m, 1)
        c == El(m, 2)
        d == El(m, 3)
    IN IF Truthy(a) \/ Truthy(b)
       THEN (IF Gt(b, I(0)) THEN Acos(Div(a, ScaleXOf(m))) ELSE Neg(Acos(Div(a, ScaleXOf(m)))))
       ELSE IF Truthy(c) \/ Truthy(d)
       THEN Sub(TAU, IF Gt(d, I(0)) THEN Acos(Div(Neg(c), ScaleYOf(m)))
                     ELSE Neg(Acos(Div(c, ScaleYOf(m)))))
       ELSE I(0)
SkewXOf(m) == Neg(Atan2(Neg(El(m, 2)), El(m, 3)))
SkewYOf(m) == Atan2(El(m, 1), El(m, 0))

DerivedNames == {"rotation", "rotationNormalized", "scaleX", "scaleY", "skewX", "skewY"}
getDerived(h, self, name) ==
    LET m == h.matrix[self] IN
    IF m = null THEN Throw(h)
    ELSE Return(h, NumV(CASE name = "rotation" -> RotationOf(m)
                          [] name = "rotationNormalized" -> RotationNormalizedOf(m)
                          [] name = "scaleX" -> ScaleXOf(m)
                          [] name = "scaleY" -> ScaleYOf(m)
                          [] name = "skewX" -> SkewXOf(m)
                          [] name = "skewY" -> SkewYOf(m)))

\* A variant of loadIdentity that resets the linear part only and keeps the
\* translation
loadIdentityLinear(h, self) ==
    LET matrix == h.matrix[self] IN
    IF matrix = null THEN Throw(h)
    ELSE LET m0 == Put(matrix, 0, I(1))
             m1 == Put(m0, 1, I(0))
             m2 == Put(m1, 2, I(0))
             m3 == Put(m2, 3, I(1))
         IN Return([h EXCEPT !.matrix[self] = m3], Ref(self))

loadIdentity(h, self) ==
    LET matrix == h.matrix[self] IN
    IF matrix = null THEN Throw(h)
    ELSE LET m0 == Put(matrix, 0, I(1))
             m1 == Put(m0, 1, I(0))
             m2 == Put(m1, 2, I(0))
             m3 == Put(m2, 3, I(1))
             m4 == Put(m3, 4, I(0))
             m5 == Put(m4, 5, I(0))
         IN Return([h EXCEPT !.matrix[self] = m5], Ref(self))

\* A variant of translate that adds the offset in world space
translateWorld(h, self, x, y) ==
    LET matrix == h.matrix[self] IN
    IF matrix = null THEN Throw(h)
    ELSE LET m4 == Put(matrix, 4, Add(El(matrix, 4), x))
             m5 == Put(m4, 5, Add(El(m4, 5), y))
         IN Return([h EXCEPT !.matrix[self] = m5], Ref(self))

translate(h, self, x, y) ==
    LET matrix == h.matrix[self] IN
    IF matrix = null THEN Throw(h)
    ELSE LET m4 == Put(matrix, 4,
                       Add(Add(Mul(El(matrix, 0), x), Mul(El(matrix, 2), y)), El(matrix, 4)))
             m5 == Put(m4, 5, Add(Add(Mul(El(m4, 1), x), Mul(El(m4, 3), y)), El(m4, 5)))
         IN Return([h EXCEPT !.matrix[self] = m5], Ref(self))

scale(h, self, x, y) ==
    LET matrix == h.matrix[self] IN
    IF matrix = null THEN Throw(h)
    ELSE LET m0 == Put(matrix, 0, Mul(El(matrix, 0), x))
             m1 == Put(m0, 1, Mul(El(m0, 1), x))
             m2 == Put(m1, 2, Mul(El(m1, 2), y))
             m3 == Put(m2, 3, Mul(El(m2, 3), y))
         IN Return([h EXCEPT !.matrix[self] = m3], Ref(self))

rotate(h, self, angle) ==
    LET sin == Sin(angle)
        cos == Cos(angle)
        matrix == h.matrix[self]
    IN IF matrix = null THEN Throw(h)
       ELSE LET a == El(matrix, 0)
                b == El(matrix, 1)
                c == El(matrix, 2)
                d == El(matrix, 3)
                m0 == Put(matrix, 0, Add(Mul(a, cos), Mul(c, sin)))
                m1 == Put(m0, 1, Add(Mul(b, cos), Mul(d, sin)))
                m2 == Put(m1, 2, Add(Mul(a, Neg(sin)), Mul(c, cos)))
                m3 == Put(m2, 3, Add(Mul(b, Neg(sin)), Mul(d, cos)))
            IN Return([h EXCEPT !.matrix[self] = m3], Ref(self))

applyITRS(h, self, x, y, rotation, scaleX, scaleY, skewX0, skewY0) ==
    LET skewX == Default(skewX0, I(0))
        skewY == Default(skewY0, I(0))
        matrix == h.matrix[self]
    IN IF matrix = null THEN Throw(h)
       ELSE LET m4 == Put(matrix, 4, x)
                m5 == Put(m4, 5, y)
                m0 == Put(m5, 0, Mul(Cos(Sub(rotation, skewY)), scaleX))
                m1 == Put(m0, 1, Mul(Sin(Sub(rotation, skewY)), scaleX))
                m2 == Put(m1, 2, Mul(Neg(Sin(Add(rotation, skewX))), scaleY))
                m3 == Put(m2, 3, Mul(Cos(Add(rotation, skewX)), scaleY))
            IN Return([h EXCEPT !.matrix[self] = m3], Ref(self))

\* A variant of skew that rebuilds the matrix at the origin
skewAtOrigin(h, self, sx, sy) ==
    LET m == h.matrix[self] IN
    IF m = null THEN Throw(h)
    ELSE applyITRS(h, self, I(0), I(0), RotationOf(m), ScaleXOf(m), ScaleYOf(m), sx, sy)

skew(h, self, sx, sy) ==
    LET m == h.matrix[self] IN
    IF m = null THEN Throw(h)
    ELSE applyITRS(h, self, El(m, 4), El(m, 5), RotationOf(m), ScaleXOf(m), ScaleYOf(m), sx, sy)

\* destinationMatrix.a = va; ... destinationMatrix.f = vf: six calls of the
\* setters of dest, the first of which throws when dest.matrix is null
setSix(h, dest, va, vb, vc, vd, ve, vf) ==
    LET r0 == setRaw(h, dest, "a", va)
        r1 == setRaw(r0.h, dest, "b", vb)
        r2 == setRaw(r1.h, dest, "c", vc)
        r3 == setRaw(r2.h, dest, "d", vd)
        r4 == setRaw(r3.h, dest, "e", ve)
        r5 == setRaw(r4.h, dest, "f", vf)
    IN IF r0.threw THEN r0
       ELSE IF r1.threw THEN r1
       ELSE IF r2.threw THEN r2
       ELSE IF r3.threw THEN r3
       ELSE IF r4.threw THEN r4
       ELSE r5

\* A variant of multiply that keeps no local copies: each result is computed
\* from the elements the operands hold when it is stored
multiplyUnbuffered(h, self, rhs, out) ==
    IF rhs = Omitted THEN Throw(h)
    ELSE IF h.matrix[self] = null \/ h.matrix[rhs] = null THEN Throw(h)
    ELSE LET dest == IF out = Omitted THEN self ELSE out
             L(g, j) == El(g.matrix[self], j)
             M(g, j) == El(g.matrix[rhs], j)
             r0 == setRaw(h, dest, "a", Add(Mul(M(h, 0), L(h, 0)), Mul(M(h, 1), L(h, 2))))
             h0 == r0.h
             r1 == setRaw(h0, dest, "b", Add(Mul(M(h0, 0), L(h0, 1)), Mul(M(h0, 1), L(h0, 3))))
             h1 == r1.h
             r2 == setRaw(h1, dest, "c", Add(Mul(M(h1, 2), L(h1, 0)), Mul(M(h1, 3), L(h1, 2))))
             h2 == r2.h
             r3 == setRaw(h2, dest, "d", Add(Mul(M(h2, 2), L(h2, 1)), Mul(M(h2, 3), L(h2, 3))))
             h3 == r3.h
             r4 == setRaw(h3, dest, "e",
                          Add(Add(Mul(M(h3, 4), L(h3, 0)), Mul(M(h3, 5), L(h3, 2))), L(h3, 4)))
             h4 == r4.h
             r5 == setRaw(h4, dest, "f",
                          Add(Add(Mul(M(h4, 4), L(h4, 1)), Mul(M(h4, 5), L(h4, 3))), L(h4, 5)))
         IN IF r0.threw THEN r0 ELSE Return(r5.h, Ref(dest))

\* A variant of multiply with the operands in the other order: the product
\* that applies this first and rhs second
multiplyReversed(h, self, rhs, out) ==
    IF rhs = Omitted THEN Throw(h)
    ELSE LET matrix == h.matrix[self]
             source == h.matrix[rhs]
         IN IF matrix = null \/ source = null THEN Throw(h)
            ELSE LET localA == El(matrix, 0)
                     localB == El(matrix, 1)
                     localC == El(matrix, 2)
                     localD == El(matrix, 3)
                     localE == El(matrix, 4)
                     localF == El(matrix, 5)
                     sourceA == El(source, 0)
                     sourceB == El(source, 1)
                     sourceC == El(source, 2)
                     sourceD == El(source, 3)
                     sourceE == El(source, 4)
                     sourceF == El(source, 5)
                     destinationMatrix == IF out = Omitted THEN self ELSE out
                     r == setSix(h, destinationMatrix,
                            Add(Mul(localA, sourceA), Mul(localB, sourceC)),
                            Add(Mul(localA, sourceB), Mul(localB, sourceD)),
                            Add(Mul(localC, sourceA), Mul(localD, sourceC)),
                            Add(Mul(localC, sourceB), Mul(localD, sourceD)),
                            Add(Add(Mul(localE, sourceA), Mul(localF, sourceC)), sourceE),
                            Add(Add(Mul(localE, sourceB), Mul(localF, sourceD)), sourceF))
                 IN IF r.threw THEN r ELSE Return(r.h, Ref(destinationMatrix))

multiply(h, self, rhs, out) ==
    IF rhs = Omitted THEN Throw(h)
    ELSE LET matrix == h.matrix[self]
             source == h.matrix[rhs]
         IN IF matrix = null \/ source = null THEN Throw(h)
            ELSE LET localA == El(matrix, 0)
                     localB == El(matrix, 1)
                     localC == El(matrix, 2)
                     localD == El(matrix, 3)
                     localE == El(matrix, 4)
                     localF == El(matrix, 5)
                     sourceA == El(source, 0)
                     sourceB == El(source, 1)
                     sourceC == El(source, 2)
                     sourceD == El(source, 3)
                     sourceE == El(source, 4)
                     sourceF == El(source, 5)
                     destinationMatrix == IF out = Omitted THEN self ELSE out
                     r == setSix(h, destinationMatrix,
                            Add(Mul(sourceA, localA), Mul(sourceB, localC)),
                            Add(Mul(sourceA, localB), Mul(sourceB, localD)),
                            Add(Mul(sourceC, localA), Mul(sourceD, localC)),
                            Add(Mul(sourceC, localB), Mul(sourceD, localD)),
                            Add(Add(Mul(sourceE, localA), Mul(sourceF, localC)), localE),
                            Add(Add(Mul(sourceE, localB), Mul(sourceF, localD)), localF))
                 IN IF r.threw THEN r ELSE Return(r.h, Ref(destinationMatrix))

\* A variant of multiplyWithOffset that leaves the offset out
multiplyWithoutOffset(h, self, src, offsetX, offsetY) ==
    LET r == multiply(h, self, src, Omitted) IN
    IF r.threw THEN Throw(h) ELSE r

\* A variant of multiplyWithOffset made of two calls: translate, then multiply
multiplyWithOffsetInSteps(h, self, src, offsetX, offsetY) ==
    LET t == translate(h, self, offsetX, offsetY) IN
    IF t.threw THEN t
    ELSE LET r == multiply(t.h, self, src, Omitted) IN
         IF r.threw THEN Throw(t.h) ELSE r

multiplyWithOffset(h, self, src, offsetX, offsetY) ==
    IF src = Omitted THEN Throw(h)
    ELSE LET matrix == h.matrix[self]
             otherMatrix == h.matrix[src]
         IN IF matrix = null \/ otherMatrix = null THEN Throw(h)
            ELSE LET a0 == El(matrix, 0)
                     b0 == El(matrix, 1)
                     c0 == El(matrix, 2)
                     d0 == El(matrix, 3)
                     tx0 == El(matrix, 4)
                     ty0 == El(matrix, 5)
                     pse == Add(Add(Mul(offsetX, a0), Mul(offsetY, c0)), tx0)
                     psf == Add(Add(Mul(offsetX, b0), Mul(offsetY, d0)), ty0)
                     a1 == El(otherMatrix, 0)
                     b1 == El(otherMatrix, 1)
                     c1 == El(otherMatrix, 2)
                     d1 == El(otherMatrix, 3)
                     tx1 == El(otherMatrix, 4)
                     ty1 == El(otherMatrix, 5)
                     m0 == Put(matrix, 0, Add(Mul(a1, a0), Mul(b1, c0)))
                     m1 == Put(m0, 1, Add(Mul(a1, b0), Mul(b1, d0)))
                     m2 == Put(m1, 2, Add(Mul(c1, a0), Mul(d1, c0)))
                     m3 == Put(m2, 3, Add(Mul(c1, b0), Mul(d1, d0)))
                     m4 == Put(m3, 4, Add(Add(Mul(tx1, a0), Mul(ty1, c0)), pse))
                     m5 == Put(m4, 5, Add(Add(Mul(tx1, b0), Mul(ty1, d0)), psf))
                 IN Return([h EXCEPT !.matrix[self] = m5], Ref(self))

\* A variant of transform that composes in the other order
transformReversed(h, self, a, b, c, d, tx, ty) ==
    LET matrix == h.matrix[self] IN
    IF matrix = null THEN Throw(h)
    ELSE LET a0 == El(matrix, 0)
             b0 == El(matrix, 1)
             c0 == El(matrix, 2)
             d0 == El(matrix, 3)
             tx0 == El(matrix, 4)
             ty0 == El(matrix, 5)
             m0 == Put(matrix, 0, Add(Mul(a0, a), Mul(b0, c)))
             m1 == Put(m0, 1, Add(Mul(a0, b), Mul(b0, d)))
             m2 == Put(m1, 2, Add(Mul(c0, a), Mul(d0, c)))
             m3 == Put(m2, 3, Add(Mul(c0, b), Mul(d0, d)))
             m4 == Put(m3, 4, Add(Add(Mul(tx0, a), Mul(ty0, c)), tx))
             m5 == Put(m4, 5, Add(Add(Mul(tx0, b), Mul(ty0, d)), ty))
         IN Return([h EXCEPT !.matrix[self] = m5], Ref(self))

transform(h, self, a, b, c, d, tx, ty) ==
    LET matrix == h.matrix[self] IN
    IF matrix = null THEN Throw(h)
    ELSE LET a0 == El(matrix, 0)
             b0 == El(matrix, 1)
             c0 == El(matrix, 2)
             d0 == El(matrix, 3)
             tx0 == El(matrix, 4)
             ty0 == El(matrix, 5)
             m0 == Put(matrix, 0, Add(Mul(a, a0), Mul(b, c0)))
             m1 == Put(m0, 1, Add(Mul(a, b0), Mul(b, d0)))
             m2 == Put(m1, 2, Add(Mul(c, a0), Mul(d, c0)))
             m3 == Put(m2, 3, Add(Mul(c, b0), Mul(d, d0)))
             m4 == Put(m3, 4, Add(Add(Mul(tx, a0), Mul(ty, c0)), tx0))
             m5 == Put(m4, 5, Add(Add(Mul(tx, b0), Mul(ty, d0)), ty0))
         IN Return([h EXCEPT !.matrix[self] = m5], Ref(self))

\* point is Omitted (a fresh { x: 0, y: 0 } is filled) or "point", the caller's
transformPoint(h, self, x, y, point) ==
    LET matrix == h.matrix[self] IN
    IF matrix = null THEN Throw(h)
    ELSE LET a == El(matrix, 0)
             b == El(matrix, 1)
             c == El(matrix, 2)
             d == El(matrix, 3)
             tx == El(matrix, 4)
             ty == El(matrix, 5)
             p == [x |-> Add(Add(Mul(x, a), Mul(y, c)), tx),
                   y |-> Add(Add(Mul(x, b), Mul(y, d)), ty)]
         IN Return(IF point = Omitted THEN h ELSE [h EXCEPT !.point = p], PointV(p))

\* A variant of invert that keeps no local copies of the elements
invertUnbuffered(h, self) ==
    LET matrix == h.matrix[self] IN
    IF matrix = null THEN Throw(h)
    ELSE LET n == Sub(Mul(El(matrix, 0), El(matrix, 3)), Mul(El(matrix, 1), El(matrix, 2)))
             m0 == Put(matrix, 0, Div(El(matrix, 3), n))
             m1 == Put(m0, 1, Div(Neg(El(m0, 1)), n))
             m2 == Put(m1, 2, Div(Neg(El(m1, 2)), n))
             m3 == Put(m2, 3, Div(El(m2, 0), n))
             m4 == Put(m3, 4, Div(Sub(Mul(El(m3, 2), El(m3, 5)), Mul(El(m3, 3), El(m3, 4))), n))
             m5 == Put(m4, 5, Div(Neg(Sub(Mul(El(m4, 0), El(m4, 5)), Mul(El(m4, 1), El(m4, 4)))), n))
         IN Return([h EXCEPT !.matrix[self] = m5], Ref(self))

\* A variant of invert that leaves a matrix of determinant 0 as it is
invertGuarded(h, self) ==
    LET matrix == h.matrix[self] IN
    IF matrix = null THEN Throw(h)
    ELSE LET a == El(matrix, 0)
             b == El(matrix, 1)
             c == El(matrix, 2)
             d == El(matrix, 3)
             tx == El(matrix, 4)
             ty == El(matrix, 5)
             n == Sub(Mul(a, d), Mul(b, c))
             m0 == Put(matrix, 0, Div(d, n))
             m1 == Put(m0, 1, Div(Neg(b), n))
             m2 == Put(m1, 2, Div(Neg(c), n))
             m3 == Put(m2, 3, Div(a, n))
             m4 == Put(m3, 4, Div(Sub(Mul(c, ty), Mul(d, tx)), n))
             m5 == Put(m4, 5, Div(Neg(Sub(Mul(a, ty), Mul(b, tx))), n))
         IN IF IsZero(n) THEN Return(h, Ref(self))
            ELSE Return([h EXCEPT !.matrix[self] = m5], Ref(self))

invert(h, self) ==
    LET matrix == h.matrix[self] IN
    IF matrix = null THEN Throw(h)
    ELSE LET a == El(matrix, 0)
             b == El(matrix, 1)
             c == El(matrix, 2)
             d == El(matrix, 3)
             tx == El(matrix, 4)
             ty == El(matrix, 5)
             n == Sub(Mul(a, d), Mul(b, c))
             m0 == Put(matrix, 0, Div(d, n))
             m1 == Put(m0, 1, Div(Neg(b), n))
             m2 == Put(m1, 2, Div(Neg(c), n))
             m3 == Put(m2, 3, Div(a, n))
             m4 == Put(m3, 4, Div(Sub(Mul(c, ty), Mul(d, tx)), n))
             m5 == Put(m4, 5, Div(Neg(Sub(Mul(a, ty), Mul(b, tx))), n))
         IN Return([h EXCEPT !.matrix[self] = m5], Ref(self))

copyFrom(h, self, src) ==
    IF src = Omitted THEN Throw(h)
    ELSE LET matrix == h.matrix[self]
             from == h.matrix[src]
         IN IF matrix = null \/ from = null THEN Throw(h)
            ELSE LET m0 == Put(matrix, 0, getRaw(h, src, "a").ret.v)
                     h0 == [h EXCEPT !.matrix[self] = m0]
                     m1 == Put(m0, 1, getRaw(h0, src, "b").ret.v)
                     h1 == [h EXCEPT !.matrix[self] = m1]
                     m2 == Put(m1, 2, getRaw(h1, src, "c").ret.v)
                     h2 == [h EXCEPT !.matrix[self] = m2]
                     m3 == Put(m2, 3, getRaw(h2, src, "d").ret.v)
                     h3 == [h EXCEPT !.matrix[self] = m3]
                     m4 == Put(m3, 4, getRaw(h3, src, "e").ret.v)
                     h4 == [h EXCEPT !.matrix[self] = m4]
                     m5 == Put(m4, 5, getRaw(h4, src, "f").ret.v)
                 IN Return([h EXCEPT !.matrix[self] = m5], Ref(self))

\* src[j] of an array: undefined past its end
At(src, j) == IF j + 1 <= Len(src) THEN src[j + 1] ELSE Undefined
\* out[j] = v on an array holding at least j elements
Store(out, j, v) == IF j + 1 <= Len(out) THEN [out EXCEPT ![j + 1] = v] ELSE Append(out, v)

\* src is Omitted or an array
copyFromArray(h, self, src) ==
    LET matrix == h.matrix[self] IN
    IF matrix = null \/ src = Omitted THEN Throw(h)
    ELSE LET m0 == Put(matrix, 0, At(src, 0))
             m1 == Put(m0, 1, At(src, 1))
             m2 == Put(m1, 2, At(src, 2))
             m3 == Put(m2, 3, At(src, 3))
             m4 == Put(m3, 4, At(src, 4))
             m5 == Put(m4, 5, At(src, 5))
         IN Return([h EXCEPT !.matrix[self] = m5], Ref(self))

\* A variant of copyToArray that writes the linear part row by row: a, c, b, d
copyToArrayByRows(h, self, out) ==
    LET matrix == h.matrix[self] IN
    IF matrix = null THEN Throw(h)
    ELSE IF out = Omitted
         THEN Return(h, ArrayV(<<El(matrix, 0), El(matrix, 2), El(matrix, 1),
                                 El(matrix, 3), El(matrix, 4), El(matrix, 5)>>))
         ELSE LET o0 == Store(h.array, 0, El(matrix, 0))
                  o1 == Store(o0, 1, El(matrix, 2))
                  o2 == Store(o1, 2, El(matrix, 1))
                  o3 == Store(o2, 3, El(matrix, 3))
                  o4 == Store(o3, 4, El(matrix, 4))
                  o5 == Store(o4, 5, El(matrix, 5))
              IN Return([h EXCEPT !.array = o5], ArrayV(o5))

\* out is Omitted (a new array is made) or "array", the caller's
copyToArray(h, self, out) ==
    LET matrix == h.matrix[self] IN
    IF matrix = null THEN Throw(h)
    ELSE IF out = Omitted
         THEN Return(h, ArrayV(<<El(matrix, 0), El(matrix, 1), El(matrix, 2),
                                 El(matrix, 3), El(matrix, 4), El(matrix, 5)>>))
         ELSE LET o0 == Store(h.array, 0, El(matrix, 0))
                  o1 == Store(o0, 1, El(matrix, 1))
                  o2 == Store(o1, 2, El(matrix, 2))
                  o3 == Store(o2, 3, El(matrix, 3))
                  o4 == Store(o3, 4, El(matrix, 4))
                  o5 == Store(o4, 5, El(matrix, 5))
              IN Return([h EXCEPT !.array = o5], ArrayV(o5))

setTransform(h, self, a, b, c, d, tx, ty) ==
    LET matrix == h.matrix[self] IN
    IF matrix = null THEN Throw(h)
    ELSE LET m0 == Put(matrix, 0, a)
             m1 == Put(m0, 1, b)
             m2 == Put(m1, 2, c)
             m3 == Put(m2, 3, d)
             m4 == Put(m3, 4, tx)
             m5 == Put(m4, 5, ty)
         IN Return([h EXCEPT !.matrix[self] = m5], Ref(self))

decomposeMatrix(h, self) ==
    LET decomposedMatrix == h.decomposedMatrix[self]
        matrix == h.matrix[self]
    IN IF matrix = null \/ decomposedMatrix = null THEN Throw(h)
       ELSE LET a == El(matrix, 0)
                b == El(matrix, 1)
                c == El(matrix, 2)
                d == El(matrix, 3)
                determ == Sub(Mul(a, d), Mul(b, c))
                scaleX2 == Add(Mul(a, a), Mul(b, b))
                scaleY2 == Add(Mul(c, c), Mul(d, d))
                d0 == [decomposedMatrix EXCEPT !.translateX = El(matrix, 4),
                                               !.translateY = El(matrix, 5),
                                               !.scaleX = I(1),
                                               !.scaleY = I(1),
                                               !.rotation = I(0),
                                               !.skewX = I(0)]
                scaleX == Sqrt(scaleX2)
                scaleY == Sqrt(scaleY2)
                d1 == IF Truthy(a) \/ Truthy(b)
                      THEN [d0 EXCEPT !.rotation = IF Gt(b, I(0)) THEN Acos(Div(a, scaleX))
                                                   ELSE Neg(Acos(Div(a, scaleX))),
                                      !.scaleX = scaleX,
                                      !.scaleY = Div(determ, scaleX),
                                      !.skewX = Atan(Div(Add(Mul(a, c), Mul(b, d)), scaleX2))]
                      ELSE IF Truthy(c) \/ Truthy(d)
                      THEN [d0 EXCEPT !.rotation = Sub(HalfPI,
                                                       IF Gt(d, I(0)) THEN Acos(Div(Neg(c), scaleY))
                                                       ELSE Neg(Acos(Div(c, scaleY)))),
                                      !.scaleX = Div(determ, scaleY),
                                      !.scaleY = scaleY,
                                      !.skewY = Atan(Div(Add(Mul(a, c), Mul(b, d)), scaleY2))]
                      ELSE [d0 EXCEPT !.rotation = I(0), !.scaleX = I(0), !.scaleY = I(0)]
            IN Return([h EXCEPT !.decomposedMatrix[self] = d1], ObjV(d1))

\* A variant of applyInverse that inverts the matrix in place and transforms
\* the point by it
applyInverseInPlace(h, self, x, y, output) ==
    LET r == invert(h, self) IN
    IF r.threw THEN r ELSE transformPoint(r.h, self, x, y, output)

\* A variant of applyInverse that applies the inverse of the linear part only
applyInverseLinear(h, self, x, y, output) ==
    LET matrix == h.matrix[self] IN
    IF matrix = null THEN Throw(h)
    ELSE LET a == El(matrix, 0)
             b == El(matrix, 1)
             c == El(matrix, 2)
             d == El(matrix, 3)
             id == Div(I(1), Add(Mul(a, d), Mul(c, Neg(b))))
             p == [x |-> Add(Mul(Mul(d, id), x), Mul(Mul(Neg(c), id), y)),
                   y |-> Add(Mul(Mul(a, id), y), Mul(Mul(Neg(b), id), x))]
         IN Return(IF output = Omitted THEN h ELSE [h EXCEPT !.point = p], PointV(p))

\* output is Omitted (a new Vector2 is filled) or "point", the caller's
applyInverse(h, self, x, y, output) ==
    LET matrix == h.matrix[self] IN
    IF matrix = null THEN Throw(h)
    ELSE LET a == El(matrix, 0)
             b == El(matrix, 1)
             c == El(matrix, 2)
             d == El(matrix, 3)
             tx == El(matrix, 4)
             ty == El(matrix, 5)
             id == Div(I(1), Add(Mul(a, d), Mul(c, Neg(b))))
             p == [x |-> Add(Add(Mul(Mul(d, id), x), Mul(Mul(Neg(c), id), y)),
                             Mul(Sub(Mul(ty, c), Mul(tx, d)), id)),
                   y |-> Add(Add(Mul(Mul(a, id), y), Mul(Mul(Neg(b), id), x)),
                             Mul(Add(Mul(Neg(ty), a), Mul(tx, b)), id))]
         IN Return(IF output = Omitted THEN h ELSE [h EXCEPT !.point = p], PointV(p))

getX(h, self, x, y) ==
    LET m == h.matrix[self] IN
    IF m = null THEN Throw(h)
    ELSE Return(h, NumV(Add(Add(Mul(x, El(m, 0)), Mul(y, El(m, 2))), El(m, 4))))

getY(h, self, x, y) ==
    LET m == h.matrix[self] IN
    IF m = null THEN Throw(h)
    ELSE Return(h, NumV(Add(Add(Mul(x, El(m, 1)), Mul(y, El(m, 3))), El(m, 5))))

getXRound(h, self, x, y, round) ==
    LET v == getX(h, self, x, y) IN
    IF v.threw THEN v
    ELSE IF round THEN Return(h, NumV(Round(v.ret.v))) ELSE v

getYRound(h, self, x, y, round) ==
    LET v == getY(h, self, x, y) IN
    IF v.threw THEN v
    ELSE IF round THEN Return(h, NumV(Round(v.ret.v))) ELSE v

\* A number in a string concatenation: Number::toString, which writes both
\* zeros as "0" and is one-to-one on every other number
NumberToString(x) == IF IsZero(x) THEN Zero(1) ELSE x

\* 'matrix(' + m[0] + ',' + ... + m[5] + ')'
getCSSMatrix(h, self) ==
    LET m == h.matrix[self] IN
    IF m = null THEN Throw(h)
    ELSE Return(h, StrV(<<NumberToString(El(m, 0)), NumberToString(El(m, 1)), NumberToString(El(m, 2)),
                          NumberToString(El(m, 3)), NumberToString(El(m, 4)), NumberToString(El(m, 5))>>))

\* A variant of destroy that drops the decomposition record only
destroyRecordOnly(h, self) ==
    Return([h EXCEPT !.decomposedMatrix[self] = null], NoValue)

destroy(h, self) ==
    Return([h EXCEPT !.matrix[self] = null, !.decomposedMatrix[self] = null], NoValue)

(***************************************************************************)
(* The program: three instances, and a caller that makes up to MaxCalls    *)
(* calls.  m1 is the receiver of every call but destroy (called on any of  *)
(* the three) and copyToArray (called on m1 or m2); m2 and m3 are the      *)
(* other matrices a call is given (rhs, src, out).  The arguments are      *)
(* drawn from the sets below.                                              *)
(***************************************************************************)
VARIABLES
    matrix,            \* matrix[i]: the nine elements of i's Float32Array, or null
    decomposedMatrix,  \* decomposedMatrix[i]: i's decomposition record, or null
    point,             \* the caller's point-like object { x, y }
    array,             \* the caller's array
    last,              \* the last call: method, receiver, arguments, outcome
    calls              \* the number of calls made

vars == <<matrix, decomposedMatrix, point, array, last, calls>>

\* The number of calls the caller makes
MaxCalls == 2

M6(a, b, c, d, tx, ty) == <<I(a), I(b), I(c), I(d), I(tx), I(ty)>>
NoArgs == <<Undefined, Undefined, Undefined, Undefined, Undefined, Undefined>>

\* Six-number arguments: of the constructor, of setTransform and of transform
Sixes ==
    { M6(0, 1, -1, 0, 0, 0),
      M6(1, 2, 3, 4, 5, 6), M6(2, 1, 1, 1, 3, -2), M6(0, -1, 1, 0, 3, -4),
      M6(1, 2, 2, 4, 1, 1), M6(0, 0, 0, 0, 5, 7), M6(0, 0, 1, 0, 0, 0) }
CtorArgs  == Sixes \cup {NoArgs}
SomeSixes == { M6(0, 0, 0, 0, 5, 7), M6(2, 1, 1, 1, 3, -2) }
\* and of transform alone: d = 1 + 2^-24, a double that is no single
DoubleSix == <<I(1), I(0), I(0), Q(16777217, 16777216), I(0), I(0)>>

\* Coordinates, offsets, scale factors, angles, property values, arrays
Points  == { <<I(3), I(-4)>> }
\* an offset of multiplyWithOffset: -4 + 2^-24, a double that is no single
DoubleOffset == <<Q(-67108863, 16777216), I(-4)>>
Offsets == { <<I(5), I(0)>>, <<I(0), I(3)>> }
Scales  == { <<I(2), I(1)>>, <<I(-1), Q(1, 2)>> }
Angles  == { Qt(1, 1) }
Skews   == { <<Qt(1, 1), I(0)>>, <<Undefined, Qt(1, 1)>> }
Values  == { I(2) }
Arrays  == { <<I(7), I(8)>> }
Others  == {"m1", "m2", Omitted}

H == [matrix |-> matrix, decomposedMatrix |-> decomposedMatrix,
      point |-> point, array |-> array]

SeqOK(sq) == \A j \in DOMAIN sq : sq[j].k # "out"
RetOK(ret) ==
    CASE ret.t = "num" -> ret.v.k # "out"
      [] ret.t \in {"point", "array", "string", "object"} -> SeqOK(ret.v)
      [] OTHER -> TRUE
\* The outcome holds only values the model represents
InModel(o) ==
    /\ \A i \in Insts : SeqOK(o.h.matrix[i]) /\ SeqOK(o.h.decomposedMatrix[i])
    /\ SeqOK(o.h.point) /\ SeqOK(o.h.array)
    /\ RetOK(o.ret)

\* No call yet: the instances were constructed
NoCall == [op |-> "new", self |-> "none", rhs |-> "none", out |-> "none",
           nums |-> <<>>, threw |-> FALSE, ret |-> NoValue, prior |-> "none"]

\* What the last call returned, when it is a point or an array
ReturnedPoint == IF last.ret.t = "point" THEN {<<last.ret.v.x, last.ret.v.y>>} ELSE {}
ReturnedArray == IF last.ret.t = "array" THEN {last.ret.v} ELSE {}

Init ==
    /\ \E a1 \in CtorArgs :
          matrix = [i \in Insts |->
                      IF i = "m1" THEN NewMatrix(a1[1], a1[2], a1[3], a1[4], a1[5], a1[6])
                      ELSE IF i = "m2" THEN NewMatrix(I(3), I(1), I(2), I(1), I(-1), I(4))
                      ELSE NewMatrix(Undefined, Undefined, Undefined, Undefined, Undefined, Undefined)]
    /\ decomposedMatrix = [i \in Insts |-> NewDecomposedMatrix]
    /\ point = [x |-> I(0), y |-> I(0)]
    /\ array = <<>>
    /\ last = NoCall
    /\ calls = 0

\* One call: the outcome res of method op on self
Call(op, self, rhs, out, nums, res) ==
    LET o == res IN
    /\ calls < MaxCalls
    /\ InModel(o)
    /\ matrix' = o.h.matrix
    /\ decomposedMatrix' = o.h.decomposedMatrix
    /\ point' = o.h.point
    /\ array' = o.h.array
    /\ last' = [op |-> op, self |-> self, rhs |-> rhs, out |-> out, nums |-> nums,
                threw |-> o.threw, ret |-> o.ret, prior |-> last.op]
    /\ calls' = calls + 1

GetRaw == \E name \in {"a", "tx"} :
    Call(name, "m1", "none", "none", <<>>, getRaw(H, "m1", name))
SetRaw == \E name \in {"c", "f"}, v \in Values :
    Call(name, "m1", "none", "none", <<v>>, setRaw(H, "m1", name, v))
GetDerived == \E name \in DerivedNames :
    Call(name, "m1", "none", "none", <<>>, getDerived(H, "m1", name))
LoadIdentity ==
    Call("loadIdentity", "m1", "none", "none", <<>>, loadIdentity(H, "m1"))
Translate == \E p \in Offsets :
    Call("translate", "m1", "none", "none", p, translate(H, "m1", p[1], p[2]))
Scale == \E p \in Scales :
    Call("scale", "m1", "none", "none", p, scale(H, "m1", p[1], p[2]))
Rotate == \E angle \in Angles :
    Call("rotate", "m1", "none", "none", <<angle>>, rotate(H, "m1", angle))
Skew == \E p \in Skews :
    Call("skew", "m1", "none", "none", p, skew(H, "m1", p[1], p[2]))
Multiply == \E rhs \in Others, out \in {"m2", "m3", Omitted} :
    Call("multiply", "m1", rhs, out, <<>>, multiply(H, "m1", rhs, out))
MultiplyWithOffset == \E src \in Others, p \in Points \cup {DoubleOffset} :
    Call("multiplyWithOffset", "m1", src, "none", p,
         multiplyWithOffset(H, "m1", src, p[1], p[2]))
Transform == \E s \in SomeSixes \cup {DoubleSix} :
    Call("transform", "m1", "none", "none", s,
         transform(H, "m1", s[1], s[2], s[3], s[4], s[5], s[6]))
TransformPoint == \E p \in Points, out \in {Omitted, "point"} :
    Call("transformPoint", "m1", "none", out, p, transformPoint(H, "m1", p[1], p[2], out))
Invert ==
    Call("invert", "m1", "none", "none", <<>>, invert(H, "m1"))
CopyFrom == \E src \in {"m2", Omitted} :
    Call("copyFrom", "m1", src, "none", <<>>, copyFrom(H, "m1", src))
CopyFromArray ==
    \/ \E src \in Arrays \cup {array} \cup ReturnedArray :
          Call("copyFromArray", "m1", "array", "none", src, copyFromArray(H, "m1", src))
    \/ Call("copyFromArray", "m1", Omitted, "none", <<>>, copyFromArray(H, "m1", Omitted))
CopyToArray == \E self \in {"m1", "m2"}, out \in {Omitted, "array"} :
    Call("copyToArray", self, "none", out, <<>>, copyToArray(H, self, out))
SetTransform == \E s \in SomeSixes :
    Call("setTransform", "m1", "none", "none", s,
         setTransform(H, "m1", s[1], s[2], s[3], s[4], s[5], s[6]))
DecomposeMatrix ==
    Call("decomposeMatrix", "m1", "none", "none", <<>>, decomposeMatrix(H, "m1"))
ApplyITRS == \E r \in Angles, sk \in Skews :
    Call("applyITRS", "m1", "none", "none", <<I(3), I(-4), r, I(2), I(2), sk[1], sk[2]>>,
         applyITRS(H, "m1", I(3), I(-4), r, I(2), I(2), sk[1], sk[2]))
ApplyInverse == \E p \in Points \cup ReturnedPoint, out \in {Omitted, "point"} :
    Call("applyInverse", "m1", "none", out, p, applyInverse(H, "m1", p[1], p[2], out))
GetX == \E p \in Points :
    Call("getX", "m1", "none", "none", p, getX(H, "m1", p[1], p[2]))
GetY == \E p \in Points :
    Call("getY", "m1", "none", "none", p, getY(H, "m1", p[1], p[2]))
GetXRound == \E round \in BOOLEAN :
    Call("getXRound", "m1", "none", IF round THEN "round" ELSE "none", <<I(3), I(-4)>>,
         getXRound(H, "m1", I(3), I(-4), round))
GetYRound == \E round \in BOOLEAN :
    Call("getYRound", "m1", "none", IF round THEN "round" ELSE "none", <<I(3), I(-4)>>,
         getYRound(H, "m1", I(3), I(-4), round))
GetCSSMatrix ==
    Call("getCSSMatrix", "m1", "none", "none", <<>>, getCSSMatrix(H, "m1"))
Destroy == \E self \in Insts :
    Call("destroy", self, "none", "none", <<>>, destroy(H, self))

Next ==
    \/ GetRaw \/ SetRaw \/ GetDerived \/ LoadIdentity \/ Translate \/ Scale
    \/ Rotate \/ Skew \/ Multiply \/ MultiplyWithOffset \/ Transform
    \/ TransformPoint \/ Invert \/ CopyFrom \/ CopyFromArray \/ CopyToArray
    \/ SetTransform \/ DecomposeMatrix \/ ApplyITRS \/ ApplyInverse
    \/ GetX \/ GetY \/ GetXRound \/ GetYRound \/ GetCSSMatrix \/ Destroy

Spec == Init /\ [][Next]_vars

(***************************************************************************)
(* Properties.  A step of the caller is a call: last' is the call made,    *)
(* the unprimed variables are the state before it, the primed ones the     *)
(* state after it.                                                         *)
(***************************************************************************)
\* The six scalars a, b, c, d, e, f of a live instance
Six(m) == <<El(m, 0), El(m, 1), El(m, 2), El(m, 3), El(m, 4), El(m, 5)>>
Identity6 == <<I(1), I(0), I(0), I(1), I(0), I(0)>>

\* a*d - b*c
Det(m) == Sub(Mul(El(m, 0), El(m, 3)), Mul(El(m, 1), El(m, 2)))
\* A live matrix of finite scalars with a determinant other than 0, and a
\* live matrix with determinant 0
Regular(m)  == m # null /\ (\A j \in 1..6 : IsFin(m[j])) /\ IsFin(Det(m)) /\ ~IsZero(Det(m))
Singular(m) == m # null /\ IsZero(Det(m))

\* Numerical equality of six scalars and of points
SixEq(s, t) == \A j \in 1..6 : NumEq(s[j], t[j])
PtEq(p, q)  == NumEq(p.x, q.x) /\ NumEq(p.y, q.y)

\* The numbers a Float32Array holds as they are, and the six scalars a
\* matrix holds once the six numbers s are stored in it
Singles(s) == \A j \in DOMAIN s : F32(s[j]) = s[j]
Stored(s)  == <<F32(s[1]), F32(s[2]), F32(s[3]), F32(s[4]), F32(s[5]), F32(s[6])>>

\* Points that tell any two affine maps apart, and one more.  A call made
\* on them in a formula is compared where its outcome is InModel, as the
\* caller's calls are.
TestPoints == { <<I(0), I(0)>>, <<I(1), I(0)>>, <<I(0), I(1)>>, <<I(3), I(-4)>> }

\* The six scalars of the product of this = L by rhs = M,
\* and the instance a call of multiply names as its destination
Product(L, M) ==
    << Add(Mul(El(M, 0), El(L, 0)), Mul(El(M, 1), El(L, 2))),
       Add(Mul(El(M, 0), El(L, 1)), Mul(El(M, 1), El(L, 3))),
       Add(Mul(El(M, 2), El(L, 0)), Mul(El(M, 3), El(L, 2))),
       Add(Mul(El(M, 2), El(L, 1)), Mul(El(M, 3), El(L, 3))),
       Add(Add(Mul(El(M, 4), El(L, 0)), Mul(El(M, 5), El(L, 2))), El(L, 4)),
       Add(Add(Mul(El(M, 4), El(L, 1)), Mul(El(M, 5), El(L, 3))), El(L, 5)) >>
Destination(call) == IF call.out = Omitted THEN call.self ELSE call.out

\* C1: multiply(rhs, out) computes the six products from the values this (L)
\* and rhs (M) held before the call, stores them (each rounded to single
\* precision by the Float32Array) in out when out is supplied and in this
\* otherwise, and returns that destination, also when the destination is one
\* of the operands.
C1_MultiplyFormulas ==
    [][(last'.op = "multiply" /\ ~last'.threw) =>
         /\ Six(matrix'[Destination(last')]) =
               Stored(Product(matrix[last'.self], matrix[last'.rhs]))
         /\ last'.ret = Ref(Destination(last'))]_vars

\* m1 = (2,1,1,1,3,-2) was multiplied by m2 = (3,1,2,1,-1,4) into m2 itself
C1_Witness ==
    /\ last.op = "multiply" /\ ~last.threw /\ last.rhs = "m2" /\ last.out = "m2"
    /\ Six(matrix["m1"]) = M6(2, 1, 1, 1, 3, -2)
    /\ Six(matrix["m2"]) = M6(7, 4, 5, 3, 5, 1)

\* C2: a call given a destination does not change this: multiply(rhs, out)
\* with out another instance leaves this as it was, and rhs too unless out
\* is rhs; transformPoint, applyInverse and copyToArray change no matrix.
C2_DestinationOnly ==
    [][/\ (last'.op = "multiply" /\ ~last'.threw /\ last'.out \notin {Omitted, last'.self}) =>
            /\ matrix'[last'.self] = matrix[last'.self]
            /\ (last'.out # last'.rhs => matrix'[last'.rhs] = matrix[last'.rhs])
       /\ (last'.op \in {"transformPoint", "applyInverse", "copyToArray"}) =>
            /\ matrix' = matrix
            /\ decomposedMatrix' = decomposedMatrix]_vars

\* applyInverse filled the caller's point from a matrix that is not its own
\* inverse, and the matrix is still (1,2,3,4,5,6)
C2_Witness ==
    /\ last.op = "applyInverse" /\ ~last.threw /\ last.out = "point"
    /\ point = last.ret.v
    /\ Six(matrix["m1"]) = M6(1, 2, 3, 4, 5, 6)

\* n is m translated by (x, y)
Translated(m, n, x, y) ==
    /\ El(n, 4) = F32(Add(Add(Mul(El(m, 0), x), Mul(El(m, 2), y)), El(m, 4)))
    /\ El(n, 5) = F32(Add(Add(Mul(El(m, 1), x), Mul(El(m, 3), y)), El(m, 5)))
    /\ \A j \in 0..3 : El(n, j) = El(m, j)
    /\ (Six(m) = Identity6 /\ <<x, y>> = <<I(5), I(0)>>) =>
          Six(n) = M6(1, 0, 0, 1, 5, 0)
    /\ (Six(m) = M6(1, 0, 0, 1, 5, 0) /\ <<x, y>> = <<I(0), I(3)>>) =>
          Six(n) = M6(1, 0, 0, 1, 5, 3)
    /\ (Six(m) = M6(0, 1, -1, 0, 0, 0) /\ <<x, y>> = <<I(5), I(0)>>) =>
          Six(n) = M6(0, 1, -1, 0, 0, 5)

\* C3: translate(x, y) sets tx to a*x + c*y + tx and ty to b*x + d*y + ty
\* (rounded to single precision by the Float32Array)
\* from the values before the call and keeps a, b, c, d; so the identity
\* translated by (5,0) and then by (0,3) has (tx, ty) = (5, 3), and the
\* quarter turn (0,1,-1,0,0,0) translated by (5,0) has (tx, ty) = (0, 5).
C3_Translate ==
    [][(last'.op = "translate" /\ ~last'.threw) =>
         Translated(matrix[last'.self], matrix'[last'.self], last'.nums[1], last'.nums[2])]_vars

\* the identity after translate(5,0) and translate(0,3)
C3_Witness ==
    /\ last.op = "translate" /\ last.prior = "translate" /\ ~last.threw
    /\ last.nums = <<I(0), I(3)>>
    /\ Six(matrix["m1"]) = M6(1, 0, 0, 1, 5, 3)

\* C4: on a matrix with a*d - b*c # 0, applyInverse of the coordinates that
\* transformPoint(x, y) returned gives back (x, y).
C4_RoundTrip ==
    [][(/\ last.op = "transformPoint" /\ ~last.threw
        /\ last'.op = "applyInverse" /\ ~last'.threw
        /\ last'.nums = <<last.ret.v.x, last.ret.v.y>>
        /\ Regular(matrix[last'.self])) =>
         /\ NumEq(last'.ret.v.x, last.nums[1])
         /\ NumEq(last'.ret.v.y, last.nums[2])]_vars

\* (3,-4) went through (1,2,3,4,5,6) to (-4,-4) and came back
C4_Witness ==
    /\ last.op = "applyInverse" /\ last.prior = "transformPoint" /\ ~last.threw
    /\ Six(matrix["m1"]) = M6(1, 2, 3, 4, 5, 6)
    /\ last.nums = <<I(-4), I(-4)>>
    /\ last.ret.v = [x |-> I(3), y |-> I(-4)]

\* The six scalars of the inverse of the matrix m, in double precision
Inverse(m) ==
    LET n == Det(m) IN
    << Div(El(m, 3), n), Div(Neg(El(m, 1)), n), Div(Neg(El(m, 2)), n), Div(El(m, 0), n),
       Div(Sub(Mul(El(m, 2), El(m, 5)), Mul(El(m, 3), El(m, 4))), n),
       Div(Neg(Sub(Mul(El(m, 0), El(m, 5)), Mul(El(m, 1), El(m, 4)))), n) >>

\* In heap g instance i is the inverse of what it is in heap h, where the
\* inverse's scalars are stored as they are
Inverted(h, g, i) ==
    Singles(Inverse(h.matrix[i])) =>
       /\ \A p \in TestPoints :
             LET after  == transformPoint(g, i, p[1], p[2], Omitted)
                 before == applyInverse(h, i, p[1], p[2], Omitted)
             IN (InModel(after) /\ InModel(before)) => PtEq(after.ret.v, before.ret.v)
       /\ LET again == invert(g, i)
          IN (InModel(again) /\ Singles(Inverse(g.matrix[i]))) =>
                SixEq(Six(again.h.matrix[i]), Six(h.matrix[i]))

MapsToItself(h, i) ==
    \A p \in TestPoints :
       PtEq(transformPoint(h, i, p[1], p[2], Omitted).ret.v, [x |-> p[1], y |-> p[2]])

\* C6: loadIdentity() on a live matrix sets the six scalars to (1,0,0,1,0,0)
\* and returns the instance; transformPoint(x, y) then returns (x, y); and a
\* matrix constructed with no arguments holds the same six scalars.
C6_LoadIdentity ==
    /\ Six(matrix["m3"]) = Identity6
    /\ [][/\ (last'.op = "loadIdentity" /\ ~last'.threw) =>
               /\ Six(matrix'[last'.self]) = Identity6
               /\ last'.ret = Ref(last'.self)
               /\ MapsToItself(H', last'.self)
          /\ (/\ last.op = "loadIdentity" /\ ~last.threw
              /\ last'.op = "transformPoint" /\ ~last'.threw) =>
               PtEq(last'.ret.v, [x |-> last'.nums[1], y |-> last'.nums[2]])]_vars

\* transformPoint(3,-4) right after loadIdentity()
C6_Witness ==
    /\ last.op = "transformPoint" /\ last.prior = "loadIdentity" /\ ~last.threw
    /\ last.nums = <<I(3), I(-4)>>
    /\ last.ret.v = [x |-> I(3), y |-> I(-4)]
    /\ Six(matrix["m1"]) = Identity6

\* C7: copyToArray() gives the six scalars in the order a, b, c, d, e, f, in
\* the array it makes and in the first six elements of the array it is
\* given; copyFromArray of that array on another instance gives that instance
\* the six scalars of the first.
C7_ArrayRoundTrip ==
    [][/\ (last'.op = "copyToArray" /\ ~last'.threw) =>
            /\ SubSeq(last'.ret.v, 1, 6) = Six(matrix[last'.self])
            /\ (last'.out = Omitted => Len(last'.ret.v) = 6 /\ array' = array)
            /\ (last'.out = "array" => array' = last'.ret.v)
       /\ (/\ last.op = "copyToArray" /\ ~last.threw
           /\ last'.op = "copyFromArray" /\ ~last'.threw
           /\ last'.rhs = "array" /\ last'.nums = last.ret.v) =>
            Six(matrix'[last'.self]) = Six(matrix[last.self])]_vars

\* m1 took the six scalars of m2 through the array m2.copyToArray() returned
C7_Witness ==
    /\ last.op = "copyFromArray" /\ last.prior = "copyToArray" /\ ~last.threw
    /\ last.nums = M6(3, 1, 2, 1, -1, 4)
    /\ Six(matrix["m1"]) = M6(3, 1, 2, 1, -1, 4)
    /\ Six(matrix["m2"]) = M6(3, 1, 2, 1, -1, 4)

\* Every call of the operations that read or write the six scalars or the
\* decomposition record, on instance i in heap h, throws
Dead(h, i) ==
    /\ \A name \in RawNames : getRaw(h, i, name).threw
    /\ \A name \in RawNames, v \in Values : setRaw(h, i, name, v).threw
    /\ \A name \in DerivedNames : getDerived(h, i, name).threw
    /\ loadIdentity(h, i).threw
    /\ \A p \in Offsets : translate(h, i, p[1], p[2]).threw
    /\ \A p \in Scales : scale(h, i, p[1], p[2]).threw
    /\ \A angle \in Angles : rotate(h, i, angle).threw
    /\ \A p \in Skews : skew(h, i, p[1], p[2]).threw
    /\ \A rhs \in Insts \cup {Omitted}, out \in Insts \cup {Omitted} : multiply(h, i, rhs, out).threw
    /\ \A src \in Insts \cup {Omitted}, p \in Points :
          multiplyWithOffset(h, i, src, p[1], p[2]).threw
    /\ \A s \in Sixes : transform(h, i, s[1], s[2], s[3], s[4], s[5], s[6]).threw
    /\ \A p \in TestPoints, out \in {Omitted, "point"} :
          /\ transformPoint(h, i, p[1], p[2], out).threw
          /\ applyInverse(h, i, p[1], p[2], out).threw
          /\ getX(h, i, p[1], p[2]).threw
          /\ getY(h, i, p[1], p[2]).threw
    /\ invert(h, i).threw
    /\ \A src \in Insts \cup {Omitted} : copyFrom(h, i, src).threw
    /\ \A src \in Arrays \cup {h.array} : copyFromArray(h, i, src).threw
    /\ copyFromArray(h, i, Omitted).threw
    /\ \A out \in {Omitted, "array"} : copyToArray(h, i, out).threw
    /\ \A s \in Sixes : setTransform(h, i, s[1], s[2], s[3], s[4], s[5], s[6]).threw
    /\ decomposeMatrix(h, i).threw
    /\ \A r \in Angles, sk \in Skews : applyITRS(h, i, I(3), I(-4), r, I(2), I(2), sk[1], sk[2]).threw
    /\ getCSSMatrix(h, i).threw

\* C8: after destroy(), every call of an operation that reads or writes the
\* six scalars or the decomposition record of that instance throws and
\* returns no value, and this stays so whatever is called next.
C8_Destroyed ==
    [][/\ (last'.op = "destroy") => Dead(H', last'.self)
       /\ \A i \in Insts : Dead(H, i) => Dead(H', i)
       /\ (last'.self \in Insts /\ last'.op # "destroy" /\ Dead(H, last'.self)) =>
            /\ last'.threw
            /\ last'.ret = NoValue
            /\ H' = H]_vars

\* getCSSMatrix() threw on m1, destroyed by the call before
C8_Witness ==
    /\ last.op = "getCSSMatrix" /\ last.prior = "destroy" /\ last.self = "m1"
    /\ last.threw
    /\ matrix["m1"] = null

\* C9: a call that throws has changed nothing: the six scalars of every
\* instance, and every decomposition record, are what they were before it.
C9_NoPartialApplication ==
    [][last'.threw => (matrix' = matrix /\ decomposedMatrix' = decomposedMatrix)]_vars

\* multiplyWithOffset threw on the destroyed m2, and m1 is a live matrix
C9_Witness ==
    /\ last.op = "multiplyWithOffset" /\ last.rhs = "m2" /\ last.threw
    /\ matrix["m2"] = null
    /\ matrix["m1"] # null
    /\ Six(matrix["m1"]) = M6(0, 1, -1, 0, 0, 0)

\* applyInverse on instance i returns, and returns no finite coordinate
NoInverseOf(h, i) ==
    \A p \in TestPoints :
       LET o == applyInverse(h, i, p[1], p[2], Omitted)
       IN ~o.threw /\ (InModel(o) => ~IsFinite(o.ret.v.x) /\ ~IsFinite(o.ret.v.y))

\* C10: on a matrix with a*d - b*c = 0, invert() does not throw and leaves
\* none of the six scalars finite, and applyInverse(x, y) does not throw and
\* returns neither x nor y finite.
C10_SingularNonFinite ==
    [][/\ (last'.op = "invert" /\ Singular(matrix[last'.self])) =>
            /\ ~last'.threw
            /\ \A j \in 1..6 : ~IsFinite(matrix'[last'.self][j])
       /\ (last'.op = "applyInverse" /\ Singular(matrix[last'.self])) =>
            /\ ~last'.threw
            /\ ~IsFinite(last'.ret.v.x)
            /\ ~IsFinite(last'.ret.v.y)
            /\ NoInverseOf(H, last'.self)]_vars

\* (1,2,2,4,1,1), of determinant 0, after invert()
C10_Witness ==
    /\ last.op = "invert" /\ ~last.threw
    /\ Six(matrix["m1"]) = <<PInf, NInf, NInf, PInf, NInf, PInf>>

\* A live matrix of six finite scalars
Finite6(m) == m # null /\ \A j \in 1..6 : IsFin(m[j])

\* In heap g the instance dest maps every point as, in heap h, instance rhs
\* followed by instance self does, where the six products are stored as
\* they are
Composed(h, g, self, rhs, dest) ==
    Singles(Product(h.matrix[self], h.matrix[rhs])) =>
    \A p \in TestPoints :
       LET inner == transformPoint(h, rhs, p[1], p[2], Omitted)
           outer == transformPoint(h, self, inner.ret.v.x, inner.ret.v.y, Omitted)
           both  == transformPoint(g, dest, p[1], p[2], Omitted)
       IN (InModel(inner) /\ InModel(outer) /\ InModel(both)) => PtEq(both.ret.v, outer.ret.v)

\* With A = identity.scale(2,1) on m1 and B = identity.translate(1,0) on m3,
\* A.multiply(B) leaves (2,0,0,1,2,0) and B.multiply(A) leaves (2,0,0,1,1,0)
ScaleThenTranslateDiffer(h) ==
    LET A  == scale(loadIdentity(h, "m1").h, "m1", I(2), I(1))
        B  == translate(loadIdentity(A.h, "m3").h, "m3", I(1), I(0))
        AB == multiply(B.h, "m1", "m3", Omitted)
        BA == multiply(B.h, "m3", "m1", Omitted)
    IN /\ Six(AB.h.matrix["m1"]) = M6(2, 0, 0, 1, 2, 0)
       /\ Six(BA.h.matrix["m3"]) = M6(2, 0, 0, 1, 1, 0)
       /\ ~SixEq(Six(AB.h.matrix["m1"]), Six(BA.h.matrix["m3"]))

RecomputedRecord(h, g, i) ==
    LET rec   == g.decomposedMatrix[i]
        fresh == decomposeMatrix([h EXCEPT !.decomposedMatrix[i] = NewDecomposedMatrix], i).ret.v
        m     == h.matrix[i]
    IN /\ \A field \in DOMAIN rec : rec[field].k # "undef"
       /\ rec = fresh
       /\ (\A j \in 0..3 : IsZero(El(m, j))) =>
             \A field \in {"scaleX", "scaleY", "rotation", "skewX", "skewY"} :
                NumEq(rec[field], I(0))

\* C12: every decomposeMatrix() recomputes the whole record from the current
\* six scalars: all seven fields are there after it, none depends on what
\* the record held before, and scaleX, scaleY, rotation, skewX and skewY are
\* zero when a = b = c = d = 0.
C12_RecomputesAllFields ==
    [][(last'.op = "decomposeMatrix" /\ ~last'.threw) =>
         RecomputedRecord(H, H', last'.self)]_vars

\* The six scalars applyITRS leaves on instance i from the first five
\* arguments of built and the skew sk
Resynthesis(h, i, built, sk) ==
    Six(applyITRS(h, i, built[1], built[2], built[3], built[4], built[5], sk[1], sk[2]).h.matrix[i])

\* skew(sk) took instance i of h, built by applyITRS(built), to the matrix
\* applyITRS leaves from the same translation, rotation and scale and sk
DiscardsSkew(h, g, i, built, sk) ==
    (Gt(built[4], I(0)) /\ Gt(built[5], I(0))) =>
       /\ El(g.matrix[i], 4) = El(h.matrix[i], 4)
       /\ El(g.matrix[i], 5) = El(h.matrix[i], 5)
       /\ SixEq(Six(g.matrix[i]), Resynthesis(h, i, built, sk))

\* skew(sk) took instance i of h to the matrix applyITRS leaves from the
\* translation it held and the values its getters returned
RebuiltFromGetters(h, g, i, sk) ==
    LET m == h.matrix[i] IN
    /\ El(g.matrix[i], 4) = El(m, 4)
    /\ El(g.matrix[i], 5) = El(m, 5)
    /\ Six(g.matrix[i]) =
          Resynthesis(h, i, <<El(m, 4), El(m, 5), RotationOf(m), ScaleXOf(m), ScaleYOf(m)>>, sk)

Same(x, y)  == x = y \/ NumEq(x, y)
Same6(s, t) == \A j \in 1..6 : Same(s[j], t[j])

\* The outcome of this.multiply(new TransformMatrix(s)) on instance i of h
MultiplyByNew(h, i, s) ==
    multiply([h EXCEPT !.matrix["m3"] = NewMatrix(s[1], s[2], s[3], s[4], s[5], s[6])],
             i, "m3", Omitted)

\* g is h after a call on instance i that left it the six scalars of
\* multiply by a new matrix of s, of transform(1, 0, 0, 1, p), of
\* transform(p[1], 0, 0, p[2], 0, 0)
TransformIsMultiply(h, g, i, s) ==
    LET other == MultiplyByNew(h, i, s) IN
    InModel(other) => Same6(Six(g.matrix[i]), Six(other.h.matrix[i]))
TranslateIsTransform(h, g, i, p) ==
    LET other == transform(h, i, I(1), I(0), I(0), I(1), p[1], p[2]) IN
    InModel(other) => Same6(Six(g.matrix[i]), Six(other.h.matrix[i]))
ScaleIsTransform(h, g, i, p) ==
    LET other == transform(h, i, p[1], I(0), I(0), p[2], I(0), I(0)) IN
    InModel(other) => Same6(Six(g.matrix[i]), Six(other.h.matrix[i]))

\* C14 as stated: for every starting matrix and all arguments,
\* transform(a, b, c, d, tx, ty) leaves the six scalars that
\* multiply(new TransformMatrix(a, b, c, d, tx, ty)) leaves, translate(x, y)
\* those of transform(1, 0, 0, 1, x, y) and scale(x, y) those of
\* transform(x, 0, 0, y, 0, 0).
C14_TransformIsMultiply ==
    /\ [][(last'.op = "transform" /\ ~last'.threw) =>
             TransformIsMultiply(H, H', last'.self, last'.nums)]_vars
    /\ [][(last'.op = "translate" /\ ~last'.threw) =>
             TranslateIsTransform(H, H', last'.self, last'.nums)]_vars
    /\ [][(last'.op = "scale" /\ ~last'.threw) =>
             ScaleIsTransform(H, H', last'.self, last'.nums)]_vars

\* C14: for every starting matrix and arguments that are single-precision
\* values, transform(a, b, c, d, tx, ty) leaves the six scalars that
\* multiply(new TransformMatrix(a, b, c, d, tx, ty)) leaves; for every
\* starting matrix of finite scalars, translate(x, y) leaves those of
\* transform(1, 0, 0, 1, x, y) and scale(x, y) those of
\* transform(x, 0, 0, y, 0, 0), the two zeros taken as one.
C14_TransformIsMultiplyOfSingles ==
    /\ [][(last'.op = "transform" /\ ~last'.threw /\ Singles(last'.nums)) =>
             TransformIsMultiply(H, H', last'.self, last'.nums)]_vars
    /\ [][(last'.op = "translate" /\ ~last'.threw /\ Finite6(matrix[last'.self])) =>
             TranslateIsTransform(H, H', last'.self, last'.nums)]_vars
    /\ [][(last'.op = "scale" /\ ~last'.threw /\ Finite6(matrix[last'.self])) =>
             ScaleIsTransform(H, H', last'.self, last'.nums)]_vars

\* transform(2, 1, 1, 1, 3, -2) was called on (1, 2, 3, 4, 5, 6)
C14_Witness ==
    /\ last.op = "transform" /\ ~last.threw
    /\ last.nums = M6(2, 1, 1, 1, 3, -2)
    /\ Six(matrix["m1"]) = M6(5, 8, 4, 6, 2, 4)

\* The translated point (pse, psf) of multiplyWithOffset on the matrix m,
\* in double precision
Pse(m, p) ==
    <<Add(Add(Mul(p[1], El(m, 0)), Mul(p[2], El(m, 2))), El(m, 4)),
      Add(Add(Mul(p[1], El(m, 1)), Mul(p[2], El(m, 3))), El(m, 5))>>

\* g holds on instance i the six scalars that translate(p) followed by
\* multiply(src) leaves there from h
AsTranslateThenMultiply(h, g, i, src, p) ==
    LET steps == multiplyWithOffsetInSteps(h, i, src, p[1], p[2]) IN
    (~steps.threw /\ InModel(steps)) => Six(g.matrix[i]) = Six(steps.h.matrix[i])

Normalized(m, r) ==
    IF \A j \in 0..3 : IsZero(El(m, j))
    THEN NumEq(r, I(0))
    ELSE (IsZero(r) \/ Gt(r, I(0))) /\ Lt(r, TAU)

\* C16: rotationNormalized always lies in [0, 2*pi): on every matrix of finite
\* scalars with a non-zero (a, b) or (c, d) the value read is >= 0 and
\* < 2*pi, and it is 0 when a = b = c = d = 0.
C16_RotationNormalizedRange ==
    (/\ last.op = "rotationNormalized" /\ ~last.threw
     /\ Finite6(matrix[last.self])) =>
       Normalized(matrix[last.self], last.ret.v)
====
